---- MODULE Spec2Model ----
(***************************************************************************)
(* Model of the amman process supervisor of client-rust                    *)
(* (src/client-rust/src/test_utils/mod.rs): AmmanProcess with its          *)
(* operations new, clone, started, start, ensure_started, restart and      *)
(* kill, the free function shutdown_amman, and the environment they        *)
(* observe: the validator processes on the machine, the control channel    *)
(* that reports a validator pid, and the two well-known ports.             *)
(*                                                                         *)
(* The supervisor is synchronous and blocking: one call runs at a time on  *)
(* the caller's thread. A call is a sequence of steps, one per I/O         *)
(* operation of the code; between two steps the environment may move. A    *)
(* busy-poll loop is a step that is enabled only once the polled           *)
(* condition holds (an iteration that polls in vain changes nothing).      *)
(***************************************************************************)
EXTENDS Integers, Sequences, FiniteSets, TLC

\* ------------------------------------------------------------------ bounds
MaxInst == 2
MaxProcs == 2

Inst == 1..MaxInst
ProcIds == 1..MaxProcs

\* Option::None for the handle, the pid and "no instance is running a call".
None == 0

VALIDATOR_PORT == "VALIDATOR_PORT"
VALIDATOR_RPC_PORT == "VALIDATOR_RPC_PORT"
Ports == {VALIDATOR_PORT, VALIDATOR_RPC_PORT}

\* AmmanClient::new(None): the handle on the one control channel.
CLIENT == "AmmanClient"

FIXTURES == "./tests/fixtures"
ASSETS == "./tests/fixtures/assets"

VARIABLES
    \* --- AmmanProcess fields, per instance
    exists,        \* the instance has been constructed (new or clone)
    process,       \* Option<Child>: the owned handle, a process id or None
    pid,           \* Option<u32>: the external pid or None
    client,        \* the AmmanClient handle the instance holds
    fixtures,      \* fixtures path
    assets_dir,    \* assets path
    \* --- the call being run (or the last one run) by the caller's thread
    self,          \* the instance the call is on (None for shutdown_amman)
    op,            \* which operation
    pc,            \* position inside it; "idle" between calls
    kill_external, \* argument of kill
    origin,        \* clone: the instance cloned from
    child,         \* _start: the spawned Child not yet stored in self.process
    result,        \* what the call returned
    events,        \* the I/O the call has performed so far, in order
    \* --- the test that drives the instances
    test,          \* what the test does with its first instance (never changes)
    hist,          \* started() as the test saw it along start -> kill -> start
    \* --- environment
    alive,         \* validator processes alive on the machine
    chanPid,       \* the pid the control channel reports when it answers
    portOpen       \* which well-known ports accept connections

fields == <<exists, process, pid, client, fixtures, assets_dir>>
call == <<self, op, pc, kill_external, origin, child, result, events>>
env == <<alive, chanPid, portOpen>>
vars == <<fields, call, test, hist, env>>

\* ------------------------------------------------------------------ helpers
Ev(name, arg) == <<name, arg>>

\* A pid query and what pid_of_amman_running_on_machine made of the answer.
QueryEv(r) == Ev("pid_query", IF r = None THEN "none" ELSE "some")

Res(tag, p) == [tag |-> tag, pid |-> p]

Range(seq) == {seq[k] : k \in 1..Len(seq)}

\* started as it would be if it looked at the handle only.
started_handle_only(i) == process[i] # None

\* AmmanProcess::started
started(i) == process[i] # None \/ pid[i] # None

\* request_validator_pid answers Ok(pid) when the channel is up and the request
\* goes through, Err otherwise; pid_of_amman_running_on_machine maps Err to None.
pid_of_amman_running_on_machine == {chanPid, None}

\* Process ids in use: of a live process, or still held by some handle or pid.
UsedIds ==
    alive \cup {process[i] : i \in Inst} \cup {pid[i] : i \in Inst}
          \cup {child, chanPid, result.pid}

\* The id the operating system gives the next process.
FreshId == CHOOSE p \in ProcIds \ UsedIds : \A q \in ProcIds \ UsedIds : p <= q

\* scan_port: a TCP connect succeeds iff the port accepts connections.
scan_port(q) == portOpen[q]

ScanEv(q) == Ev(IF scan_port(q) THEN "scan_open" ELSE "scan_closed", q)

\* The waits as they would be if they probed once instead of looping.
wait_for_port_once(q) == TRUE

wait_for_port_free_once(q) == TRUE

\* wait_for_port / wait_for_port_free leave their loop on this condition.
wait_for_port(q) == scan_port(q)

wait_for_port_free(q) == ~scan_port(q)

\* The state after the test process has started, before it constructs anything.
\* t is the kind of test:
\*   "any"       any calls on any instance;
\*   "sequence"  the same, and the test notes what started() returns on its
\*               first instance along a start -> kill -> start sequence;
\*   "fresh"     the test never calls start, ensure_started or restart on
\*               its first instance.
InitWith(t) ==
    /\ exists = [i \in Inst |-> FALSE]
    /\ process = [i \in Inst |-> None]
    /\ pid = [i \in Inst |-> None]
    /\ client = [i \in Inst |-> ""]
    /\ fixtures = [i \in Inst |-> ""]
    /\ assets_dir = [i \in Inst |-> ""]
    /\ self = None
    /\ op = "none"
    /\ pc = "idle"
    /\ kill_external = FALSE
    /\ origin = None
    /\ child = None
    /\ result = Res("none", None)
    /\ events = <<>>
    /\ test = t
    /\ hist = <<>>
    /\ alive = {}
    /\ chanPid = None
    /\ portOpen = [q \in Ports |-> FALSE]

Init == InitWith("any")


\* ------------------------------------------------------------------ calls
\* The first instance the test constructs.
Subject == 1

\* In a "sequence" test, hist is what started() returns on Subject before the
\* first start and after each call that returned Ok along start -> kill ->
\* start. Any other mutating call on Subject, or a failed call, ends the
\* sequence.
Followed(i) == test = "sequence" /\ i = Subject

\* In a "fresh" test these calls are never made on Subject.
Allowed(i, o) ==
    ~(test = "fresh" /\ i = Subject /\ o \in {"start", "ensure_started", "restart"})

Follows(i, o) ==
    \/ o = "start" /\ Len(hist) = 3
    \/ o = "kill" /\ Len(hist) = 2

\* Operation o of instance i is entered and does not return at once.
Track(i, o) ==
    hist' = IF ~Followed(i) \/ Follows(i, o) THEN hist
            ELSE IF o = "start" THEN <<started(i)>>
            ELSE <<>>

\* The caller's thread enters operation o of instance i.
Enter(i, o) ==
    /\ pc = "idle"
    /\ exists[i]
    /\ Allowed(i, o)
    /\ self' = i
    /\ op' = o
    /\ origin' = None
    /\ child' = None

\* The call goes on to position l.
Goto(l) ==
    /\ pc' = l
    /\ result' = Res("pending", None)

\* Operation o of instance i returns the error tag to its caller.
Fail(i, tag, p) ==
    /\ pc' = "returned"
    /\ result' = Res(tag, p)
    /\ hist' = IF Followed(i) THEN <<>> ELSE hist

\* Operation o of instance i returns Ok(()); process' and pid' are already set.
ReturnOk(i, o) ==
    /\ pc' = "returned"
    /\ result' = Res("Ok", None)
    /\ \E s \in {i} :
         hist' = IF ~Followed(s) THEN hist
                 ELSE IF o \in {"start", "kill"} /\ Len(hist) \in 1..3
                 THEN Append(hist, started(s)')
                 ELSE <<>>

\* The caller takes the result and goes on.
Resume ==
    /\ pc = "returned"
    /\ pc' = "idle"
    /\ self' = None
    /\ op' = "none"
    /\ kill_external' = FALSE
    /\ origin' = None
    /\ child' = None
    /\ result' = Res("none", None)
    /\ events' = <<>>
    /\ UNCHANGED <<fields, test, hist, env>>

\* ------------------------------------------------------------------ new, clone, started
\* AmmanProcess::new. The two canonicalize(..).expect(..) calls succeed: the
\* fixtures directories are part of the repository the tests run in.
New(i) ==
    /\ pc = "idle"
    /\ ~exists[i]
    /\ i = 1 + Cardinality({j \in Inst : exists[j]})
    /\ \E r \in pid_of_amman_running_on_machine :
         /\ pid' = [pid EXCEPT ![i] = r]
         /\ events' = <<QueryEv(r)>>
    /\ exists' = [exists EXCEPT ![i] = TRUE]
    /\ process' = [process EXCEPT ![i] = None]
    /\ client' = [client EXCEPT ![i] = CLIENT]
    /\ fixtures' = [fixtures EXCEPT ![i] = FIXTURES]
    /\ assets_dir' = [assets_dir EXCEPT ![i] = ASSETS]
    /\ self' = i
    /\ op' = "new"
    /\ origin' = None
    /\ child' = None
    /\ result' = Res("Ok", None)
    /\ pc' = "returned"
    /\ UNCHANGED <<kill_external, test, hist, env>>

\* Clone as it would be if it shared the handle with the original.
CloneProcessShared(i) == process[i]

\* Clone as it would be if it took the pid of the original's own process.
ClonePidOfHandle(i) == IF pid[i] # None THEN pid[i] ELSE process[i]

\* impl Clone for AmmanProcess: the pid the clone gets (line 51).
ClonePid(i) == pid[i]

\* impl Clone for AmmanProcess: the handle the clone gets (line 50).
CloneProcess(i) == None

\* impl Clone for AmmanProcess
Clone(i, j) ==
    /\ pc = "idle"
    /\ exists[i]
    /\ ~exists[j]
    /\ j = 1 + Cardinality({k \in Inst : exists[k]})
    /\ exists' = [exists EXCEPT ![j] = TRUE]
    /\ process' = [process EXCEPT ![j] = CloneProcess(i)]
    /\ pid' = [pid EXCEPT ![j] = ClonePid(i)]
    /\ client' = [client EXCEPT ![j] = client[i]]
    /\ fixtures' = [fixtures EXCEPT ![j] = fixtures[i]]
    /\ assets_dir' = [assets_dir EXCEPT ![j] = assets_dir[i]]
    /\ self' = j
    /\ op' = "clone"
    /\ origin' = i
    /\ child' = None
    /\ result' = Res("Ok", None)
    /\ events' = <<>>
    /\ pc' = "returned"
    /\ UNCHANGED <<kill_external, test, hist, env>>

\* AmmanProcess::started, called by the test
CallStarted(i) ==
    /\ Enter(i, "started")
    /\ result' = Res(IF started(i) THEN "true" ELSE "false", None)
    /\ events' = <<>>
    /\ pc' = "returned"
    /\ UNCHANGED <<fields, kill_external, test, hist, env>>

\* ------------------------------------------------------------------ start
\* _start as it would be if it checked the pid before the handle.
StartEntryPidFirst(i, o, evs) ==
    \E r \in pid_of_amman_running_on_machine :
      IF r # None
      THEN /\ events' = Append(evs, QueryEv(r))
           /\ Fail(i, "AmmanAlreadyRunning", r)
      ELSE IF process[i] # None
      THEN /\ events' = Append(evs, QueryEv(r))
           /\ Fail(i, "AmmanWasAlreadyStarted", None)
      ELSE /\ events' = Append(evs, QueryEv(r))
           /\ Goto("spawn") /\ Track(i, o)

\* AmmanProcess::_start, lines 91-96: the two refusals. o is the operation
\* that runs _start and evs the I/O it has performed so far.
StartEntry(i, o, evs) ==
    IF process[i] # None
    THEN /\ events' = evs
         /\ Fail(i, "AmmanWasAlreadyStarted", None)
    ELSE \E r \in pid_of_amman_running_on_machine :
           /\ events' = Append(evs, QueryEv(r))
           /\ IF r # None
              THEN Fail(i, "AmmanAlreadyRunning", r)
              ELSE Goto("spawn") /\ Track(i, o)

\* AmmanProcess::start
CallStart(i) ==
    /\ Enter(i, "start")
    /\ StartEntry(i, "start", <<>>)
    /\ UNCHANGED <<test, fields, kill_external, env>>

\* _start run by restart after its kill, or by ensure_started
StartCheck ==
    /\ pc = "start_check"
    /\ StartEntry(self, op, events)
    /\ UNCHANGED <<test, fields, self, op, kill_external, origin, child, env>>

\* AmmanProcess::_start, lines 98-120: cmd.spawn()?
Spawn ==
    /\ pc = "spawn"
    /\ UNCHANGED <<test, fields, self, op, kill_external, origin, chanPid, portOpen>>
    /\ \E ok \in BOOLEAN :
         IF ok
         THEN /\ ProcIds \ UsedIds # {}
              /\ alive' = alive \cup {FreshId}
              /\ child' = FreshId
              /\ pc' = "wait_pid"
              /\ events' = Append(events,
                                  Ev("spawn", IF op = "restart" THEN "config" ELSE ""))
              /\ UNCHANGED <<result, hist>>
         ELSE /\ events' = Append(events, Ev("spawn_failed", ""))
              /\ UNCHANGED <<alive, child>>
              /\ Fail(self, "FailedToKillAmman", None)

\* The wait for a pid as it would be if it asked once instead of looping.
WaitPidOnce ==
    /\ pc = "wait_pid"
    /\ pc' = "wait_port1"
    /\ events' = Append(events, QueryEv(chanPid))
    /\ UNCHANGED <<fields, self, op, kill_external, origin, child, result, test, hist, env>>

\* AmmanProcess::_start, lines 122-131: loop until a pid is reported
WaitPid ==
    /\ pc = "wait_pid"
    /\ \E r \in pid_of_amman_running_on_machine : r # None
    /\ pc' = "wait_port1"
    /\ events' = Append(events, QueryEv(chanPid))
    /\ UNCHANGED <<fields, self, op, kill_external, origin, child, result, test, hist, env>>

\* AmmanProcess::_start, line 134
WaitPort1 ==
    /\ pc = "wait_port1"
    /\ wait_for_port(VALIDATOR_PORT)
    /\ pc' = "wait_port2"
    /\ events' = Append(events, ScanEv(VALIDATOR_PORT))
    /\ UNCHANGED <<fields, self, op, kill_external, origin, child, result, test, hist, env>>

\* _start as it would be if it also recorded the pid of the process it spawned.
WaitPort2RecordsPid ==
    /\ pc = "wait_port2"
    /\ wait_for_port(VALIDATOR_RPC_PORT)
    /\ events' = events \o <<ScanEv(VALIDATOR_RPC_PORT), Ev("set_handle", "")>>
    /\ process' = [process EXCEPT ![self] = child]
    /\ pid' = [pid EXCEPT ![self] = child]
    /\ child' = None
    /\ UNCHANGED <<test, exists, client, fixtures, assets_dir>>
    /\ ReturnOk(self, op)
    /\ UNCHANGED <<self, op, kill_external, origin, env>>

\* AmmanProcess::_start, lines 135-139
WaitPort2 ==
    /\ pc = "wait_port2"
    /\ wait_for_port(VALIDATOR_RPC_PORT)
    /\ events' = events \o <<ScanEv(VALIDATOR_RPC_PORT), Ev("set_handle", "")>>
    /\ process' = [process EXCEPT ![self] = child]
    /\ child' = None
    /\ UNCHANGED <<test, exists, pid, client, fixtures, assets_dir>>
    /\ ReturnOk(self, op)
    /\ UNCHANGED <<self, op, kill_external, origin, env>>

\* ------------------------------------------------------------------ kill
\* The environment after process p has been terminated.
Terminated(p) ==
    /\ alive' = alive \ {p}
    /\ chanPid' = IF chanPid = p THEN None ELSE chanPid

\* kill returned Ok(()): to the caller, or to restart, which goes on to _start.
KillOk(i, o) ==
    IF o = "restart"
    THEN /\ pc' = "start_check"
         /\ UNCHANGED <<result, hist>>
    ELSE ReturnOk(i, o)

\* kill as it would be if its first check looked at the handle only.
KillEntryHandleOnly(i, ke, o) ==
    /\ events' = <<>>
    /\ IF process[i] = None
       THEN Fail(i, "AmmanCannotBeKilledIfNotRunning", None)
       ELSE Goto("kill_request") /\ Track(i, o)

\* kill as it would be if it ignored kill_external and always stopped an
\* externally started validator.
KillEntryAlwaysExternal(i, ke, o) ==
    /\ events' = <<>>
    /\ IF ~started(i)
       THEN Fail(i, "AmmanCannotBeKilledIfNotRunning", None)
       ELSE IF process[i] # None
       THEN Goto("kill_request") /\ Track(i, o)
       ELSE Goto("stop_spawn") /\ Track(i, o)

\* AmmanProcess::kill, lines 151-155, 163-164, 171-176: the path kill takes.
\* o is the operation that runs kill (kill itself, or restart).
KillEntry(i, ke, o) ==
    /\ events' = IF started(i) /\ process[i] = None /\ ~ke
                 THEN <<Ev("refuse", "")>> ELSE <<>>
    /\ IF ~started(i)
       THEN Fail(i, "AmmanCannotBeKilledIfNotRunning", None)
       ELSE IF process[i] # None
       THEN Goto("kill_request") /\ Track(i, o)
       ELSE IF ke
       THEN Goto("stop_spawn") /\ Track(i, o)
       ELSE ReturnOk(i, o)

\* AmmanProcess::kill
CallKill(i, ke) ==
    /\ Enter(i, "kill")
    /\ kill_external' = ke
    /\ UNCHANGED <<test, fields, env>>
    /\ KillEntry(i, ke, "kill")

\* kill as it would be if it ignored the outcome of the kill request.
KillRequestIgnored ==
    /\ pc = "kill_request"
    /\ \E ok \in BOOLEAN :
         /\ ok => chanPid # None
         /\ pc' = "os_kill"
         /\ result' = result
         /\ events' = Append(events, Ev(IF ok THEN "kill_request"
                                              ELSE "kill_request_failed", ""))
    /\ UNCHANGED <<fields, self, op, kill_external, origin, child, test, hist, env>>

\* AmmanProcess::kill, lines 156-158: request_kill_amman().expect(..)
KillRequest ==
    /\ pc = "kill_request"
    /\ \E ok \in BOOLEAN :
         IF ok
         THEN /\ chanPid # None
              /\ pc' = "os_kill"
              /\ result' = result
              /\ events' = Append(events, Ev("kill_request", ""))
         ELSE /\ pc' = "aborted"
              /\ result' = Res("panic", None)
              /\ events' = Append(events, Ev("kill_request_failed", ""))
    /\ UNCHANGED <<fields, self, op, kill_external, origin, child, test, hist, env>>

\* AmmanProcess::kill, line 160: process.kill()?
OsKill ==
    /\ pc = "os_kill"
    /\ UNCHANGED <<test, fields, self, op, kill_external, origin, child, portOpen>>
    /\ \E ok \in BOOLEAN :
         IF ok
         THEN /\ Terminated(process[self])
              /\ pc' = "os_wait"
              /\ events' = Append(events, Ev("os_kill", ""))
              /\ UNCHANGED <<result, hist>>
         ELSE /\ events' = Append(events, Ev("os_kill_failed", ""))
              /\ UNCHANGED <<alive, chanPid>>
              /\ Fail(self, "FailedToKillAmman", None)

\* The handle as it would be if kill forgot to clear it.
KeptHandle == process[self]

\* The handle after a successful wait (line 162).
ClearedHandle == None

\* kill as it would be if it gave up the handle before waiting on it.
OsWaitHandleTaken ==
    /\ pc = "os_wait"
    /\ UNCHANGED <<test, exists, pid, client, fixtures, assets_dir,
                   self, op, kill_external, origin, child, env>>
    /\ process' = [process EXCEPT ![self] = ClearedHandle]
    /\ \E ok \in BOOLEAN :
         IF ok
         THEN /\ events' = events \o <<Ev("os_wait", ""), Ev("clear_handle", "")>>
              /\ KillOk(self, op)
         ELSE /\ events' = Append(events, Ev("os_wait_failed", ""))
              /\ Fail(self, "FailedToKillAmman", None)

\* AmmanProcess::kill, lines 161-162: process.wait()?; self.process = None
OsWait ==
    /\ pc = "os_wait"
    /\ UNCHANGED <<test, exists, pid, client, fixtures, assets_dir,
                   self, op, kill_external, origin, child, env>>
    /\ \E ok \in BOOLEAN :
         IF ok
         THEN /\ process' = [process EXCEPT ![self] = ClearedHandle]
              /\ events' = events \o <<Ev("os_wait", ""), Ev("clear_handle", "")>>
              /\ KillOk(self, op)
         ELSE /\ process' = process
              /\ events' = Append(events, Ev("os_wait_failed", ""))
              /\ Fail(self, "FailedToKillAmman", None)

\* AmmanProcess::kill, line 165: Command::new(..).arg("stop").spawn()?
StopSpawn ==
    /\ pc = "stop_spawn"
    /\ UNCHANGED <<test, fields, self, op, kill_external, origin, child, env>>
    /\ \E ok \in BOOLEAN :
         IF ok
         THEN /\ pc' = "stop_wait"
              /\ events' = Append(events, Ev("stop_spawn", ""))
              /\ UNCHANGED <<result, hist>>
         ELSE /\ events' = Append(events, Ev("stop_spawn_failed", ""))
              /\ Fail(self, "FailedToKillAmman", None)

\* AmmanProcess::kill, line 166: process.wait()? on the stop command
StopWait ==
    /\ pc = "stop_wait"
    /\ UNCHANGED <<test, fields, self, op, kill_external, origin, child, env>>
    /\ \E ok \in BOOLEAN :
         IF ok
         THEN /\ pc' = "free_port1"
              /\ events' = Append(events, Ev("stop_wait", ""))
              /\ UNCHANGED <<result, hist>>
         ELSE /\ events' = Append(events, Ev("stop_wait_failed", ""))
              /\ Fail(self, "FailedToKillAmman", None)

\* AmmanProcess::kill, line 168
FreePort1 ==
    /\ pc = "free_port1"
    /\ wait_for_port_free(VALIDATOR_PORT)
    /\ pc' = "free_port2"
    /\ events' = Append(events, ScanEv(VALIDATOR_PORT))
    /\ UNCHANGED <<fields, self, op, kill_external, origin, child, result, test, hist, env>>

\* The external pid after the ports were seen free (line 170).
ClearedPid == None

\* AmmanProcess::kill, lines 169-170
FreePort2 ==
    /\ pc = "free_port2"
    /\ wait_for_port_free(VALIDATOR_RPC_PORT)
    /\ events' = events \o <<ScanEv(VALIDATOR_RPC_PORT), Ev("clear_pid", "")>>
    /\ pid' = [pid EXCEPT ![self] = ClearedPid]
    /\ UNCHANGED <<test, exists, process, client, fixtures, assets_dir>>
    /\ KillOk(self, op)
    /\ UNCHANGED <<self, op, kill_external, origin, child, env>>

\* restart as it would be if it killed without the external-kill permission.
CallRestartNoExternal(i) ==
    /\ Enter(i, "restart")
    /\ kill_external' = FALSE
    /\ UNCHANGED <<test, fields, env>>
    /\ IF started(i)
       THEN KillEntry(i, FALSE, "restart")
       ELSE StartEntry(i, "restart", <<>>)

\* ------------------------------------------------------------------ restart
\* AmmanProcess::restart, lines 143-146
CallRestart(i) ==
    /\ Enter(i, "restart")
    /\ kill_external' = started(i)
    /\ UNCHANGED <<test, fields, env>>
    /\ IF started(i)
       THEN KillEntry(i, TRUE, "restart")
       ELSE StartEntry(i, "restart", <<>>)

\* ensure_started as it would be if it queried the channel before looking at
\* its handle.
CallEnsureStartedQueryFirst(i) ==
    /\ Enter(i, "ensure_started")
    /\ UNCHANGED <<test, exists, process, client, fixtures, assets_dir, kill_external, env>>
    /\ \E r \in pid_of_amman_running_on_machine :
         /\ events' = <<QueryEv(r)>>
         /\ IF r # None
            THEN /\ pid' = [pid EXCEPT ![i] = r]
                 /\ ReturnOk(i, "ensure_started")
            ELSE IF process[i] # None
            THEN /\ pid' = pid
                 /\ ReturnOk(i, "ensure_started")
            ELSE /\ pid' = pid
                 /\ Goto("start_check")
                 /\ Track(i, "ensure_started")

\* ------------------------------------------------------------------ ensure_started
\* AmmanProcess::ensure_started, lines 75-82
CallEnsureStarted(i) ==
    /\ Enter(i, "ensure_started")
    /\ UNCHANGED <<test, exists, process, client, fixtures, assets_dir, kill_external, env>>
    /\ IF process[i] # None
       THEN /\ events' = <<>>
            /\ pid' = pid
            /\ ReturnOk(i, "ensure_started")
       ELSE \E r \in pid_of_amman_running_on_machine :
              /\ events' = <<QueryEv(r)>>
              /\ IF r # None
                 THEN /\ pid' = [pid EXCEPT ![i] = r]
                      /\ ReturnOk(i, "ensure_started")
                 ELSE /\ pid' = pid
                      /\ Goto("start_check")
                      /\ Track(i, "ensure_started")

\* ------------------------------------------------------------------ shutdown_amman
\* shutdown_amman as it would be if it sent the kill request without asking
\* for a pid first.
CallShutdownUnasked ==
    /\ pc = "idle"
    /\ self' = None
    /\ op' = "shutdown_amman"
    /\ origin' = None
    /\ child' = None
    /\ events' = <<>>
    /\ pc' = "sd_request"
    /\ result' = Res("pending", None)
    /\ UNCHANGED <<fields, kill_external, test, hist, env>>

\* shutdown_amman, lines 185-187
CallShutdown ==
    /\ pc = "idle"
    /\ self' = None
    /\ op' = "shutdown_amman"
    /\ origin' = None
    /\ child' = None
    /\ \E r \in pid_of_amman_running_on_machine :
         /\ events' = <<QueryEv(r)>>
         /\ IF r # None
            THEN /\ pc' = "sd_request"
                 /\ result' = Res("pending", None)
            ELSE /\ pc' = "returned"
                 /\ result' = Res("Ok", None)
    /\ UNCHANGED <<fields, kill_external, test, hist, env>>

\* shutdown_amman, lines 188-190
SdRequest ==
    /\ pc = "sd_request"
    /\ \E ok \in BOOLEAN :
         IF ok
         THEN /\ chanPid # None
              /\ pc' = "sd_wait"
              /\ result' = result
              /\ events' = Append(events, Ev("kill_request", ""))
         ELSE /\ pc' = "aborted"
              /\ result' = Res("panic", None)
              /\ events' = Append(events, Ev("kill_request_failed", ""))
    /\ UNCHANGED <<fields, self, op, kill_external, origin, child, test, hist, env>>

\* shutdown_amman, line 191: loop until no pid is reported
SdWait ==
    /\ pc = "sd_wait"
    /\ \E r \in pid_of_amman_running_on_machine : r = None
    /\ pc' = "returned"
    /\ result' = Res("Ok", None)
    /\ events' = Append(events, QueryEv(None))
    /\ UNCHANGED <<fields, self, op, kill_external, origin, child, test, hist, env>>

\* ------------------------------------------------------------------ environment
\* Time passes: not at the instant a call returns, and a caller that was
\* aborted by a panic is not followed any further.
Running == pc \notin {"returned", "aborted"}

\* Somebody else on the machine starts amman while none is running.
ExternalStart ==
    /\ Running
    /\ alive = {}
    /\ ProcIds \ UsedIds # {}
    /\ alive' = alive \cup {FreshId}
    /\ UNCHANGED <<fields, call, test, hist, chanPid, portOpen>>

\* A running amman becomes the one the control channel answers for.
ChannelUp(p) ==
    /\ Running
    /\ p \in alive
    /\ chanPid = None
    /\ chanPid' = p
    /\ UNCHANGED <<fields, call, test, hist, alive, portOpen>>

\* A validator exits: asked to over the control channel or by the stop
\* command, stopped by somebody else, or on its own.
ProcExit(p) ==
    /\ Running
    /\ p \in alive
    /\ Terminated(p)
    /\ UNCHANGED <<fields, call, test, hist, portOpen>>

\* A running validator binds a well-known port.
PortOpens(q) ==
    /\ Running
    /\ alive # {}
    /\ ~portOpen[q]
    /\ portOpen' = [portOpen EXCEPT ![q] = TRUE]
    /\ UNCHANGED <<fields, call, test, hist, alive, chanPid>>

\* A well-known port stops accepting connections.
PortCloses(q) ==
    /\ Running
    /\ portOpen[q]
    /\ portOpen' = [portOpen EXCEPT ![q] = FALSE]
    /\ UNCHANGED <<fields, call, test, hist, alive, chanPid>>

\* ------------------------------------------------------------------ specification
Next ==
    \/ \E i \in Inst : New(i)
    \/ \E i, j \in Inst : Clone(i, j)
    \/ \E i \in Inst : CallStarted(i)
    \/ \E i \in Inst : CallStart(i)
    \/ StartCheck
    \/ Spawn
    \/ WaitPid
    \/ WaitPort1
    \/ WaitPort2
    \/ \E i \in Inst, ke \in BOOLEAN : CallKill(i, ke)
    \/ KillRequest
    \/ OsKill
    \/ OsWait
    \/ StopSpawn
    \/ StopWait
    \/ FreePort1
    \/ FreePort2
    \/ \E i \in Inst : CallRestart(i)
    \/ \E i \in Inst : CallEnsureStarted(i)
    \/ Resume
    \/ CallShutdown
    \/ SdRequest
    \/ SdWait
    \/ ExternalStart
    \/ \E p \in ProcIds : ChannelUp(p)
    \/ \E p \in ProcIds : ProcExit(p)
    \/ \E q \in Ports : PortOpens(q)
    \/ \E q \in Ports : PortCloses(q)

Spec == Init /\ [][Next]_vars

\* The busy-poll loops of _start poll again and again: a wait whose condition
\* holds from some time on is eventually left.
SpecLive ==
    /\ Init
    /\ [][Next]_vars
    /\ WF_vars(WaitPid)
    /\ WF_vars(WaitPort1)
    /\ WF_vars(WaitPort2)

\* The same program under a test that follows its first instance.
InitSeq == InitWith("sequence")

SpecSeq == InitSeq /\ [][Next]_vars

\* The same program under a test that leaves its first instance as constructed.
InitFresh == InitWith("fresh")

SpecFresh == InitFresh /\ [][Next]_vars

TypeOK ==
    /\ exists \in [Inst -> BOOLEAN]
    /\ process \in [Inst -> ProcIds \cup {None}]
    /\ pid \in [Inst -> ProcIds \cup {None}]
    /\ client \in [Inst -> {CLIENT, ""}]
    /\ self \in Inst \cup {None}
    /\ origin \in Inst \cup {None}
    /\ child \in ProcIds \cup {None}
    /\ kill_external \in BOOLEAN
    /\ test \in {"any", "sequence", "fresh"}
    /\ Len(hist) <= 4
    /\ alive \subseteq ProcIds
    /\ chanPid \in alive \cup {None}
    /\ portOpen \in [Ports -> BOOLEAN]

\* ------------------------------------------------------------------ properties
Last(seq) == seq[Len(seq)]

Tail4(seq) == SubSeq(seq, Len(seq) - 3, Len(seq))

\* A call of operation o has just returned.
Returned(o) == pc = "returned" /\ op = o

\* C1: started() returns true exactly when the owned handle or the external pid
\* is present, and the call performs no control-channel query and no port
\* probe and changes neither an instance nor the environment.
C1_StartedIsPurePredicate ==
    [][(pc = "idle" /\ pc' = "returned" /\ op' = "started")
         => /\ result'.tag =
                 (IF process[self'] # None \/ pid[self'] # None THEN "true" ELSE "false")
            /\ events' = <<>>
            /\ UNCHANGED <<fields, env>>]_vars

C1_Witness ==
    /\ Returned("started")
    /\ result.tag = "true"
    /\ process[self] = None
    /\ pid[self] # None

\* C2 (as claimed): along start -> kill -> start on one instance, each call
\* succeeding, started() is false before the first start, true after it, false
\* after the kill and true after the second start.
C2_StartedAlternates ==
    Len(hist) = 4 => hist = <<FALSE, TRUE, FALSE, TRUE>>

\* C3 (as claimed): whenever kill returns Ok, with either value of
\* kill_external, started() of the same instance is false right after.
C3_NotStartedAfterKill ==
    (Returned("kill") /\ result.tag = "Ok") => ~started(self)

\* C3 (amended): whenever kill returns Ok the handle is absent, and started()
\* is then false exactly when the external pid is absent: it is absent after
\* the external path of kill(true), and still present after kill(false)
\* refused to kill.
C3_KillOkClearsWhatItKilled ==
    (Returned("kill") /\ result.tag = "Ok")
      => /\ process[self] = None
         /\ (Last(events) = Ev("clear_pid", "") => kill_external /\ ~started(self))
         /\ (Last(events) = Ev("refuse", "") => ~kill_external /\ started(self))
         /\ (Last(events) = Ev("clear_handle", "") => (started(self) <=> pid[self] # None))
         /\ Last(events) \in {Ev("clear_pid", ""), Ev("refuse", ""), Ev("clear_handle", "")}

C3_Witness ==
    /\ Returned("kill")
    /\ result.tag = "Ok"
    /\ Last(events) = Ev("refuse", "")
    /\ started(self)

\* C4 (as claimed): while some instance holds the handle of a start that was
\* not followed by a kill, no start goes on to spawn.
C4_NoSpawnAfterStart ==
    (op = "start" /\ pc = "spawn") => \A j \in Inst : process[j] = None

\* C4 (amended): a start on an instance that holds a handle fails with
\* AmmanWasAlreadyStarted before any pid query; a start on an instance without
\* a handle fails with AmmanAlreadyRunning(pid) exactly when its pid query
\* reports a pid, and goes on to spawn when the query reports none (the
\* validator is gone, or the request failed).
C4_StartRefusals ==
    /\ (op = "start" /\ pc \in {"spawn", "wait_pid", "wait_port1", "wait_port2"})
         => /\ process[self] = None
            /\ events[1] = Ev("pid_query", "none")
    /\ (Returned("start") /\ result.tag # "Ok")
         => /\ (process[self] # None
                  <=> (result.tag = "AmmanWasAlreadyStarted" /\ events = <<>>))
            /\ (result.tag = "AmmanAlreadyRunning"
                  <=> events = <<Ev("pid_query", "some")>>)
            /\ (result.tag = "AmmanAlreadyRunning"
                  => result.pid = chanPid /\ chanPid # None)
            /\ (result.tag \notin {"AmmanWasAlreadyStarted", "AmmanAlreadyRunning"}
                  => events = <<Ev("pid_query", "none"), Ev("spawn_failed", "")>>)

C4_Witness ==
    /\ Returned("start")
    /\ result.tag = "AmmanAlreadyRunning"
    /\ \E j \in Inst : j # self /\ process[j] = result.pid

\* C5 (as claimed): kill against an instance as constructed by new, on which
\* start, ensure_started and restart were never called, fails with
\* AmmanCannotBeKilledIfNotRunning.
C5_KillFreshFails ==
    (test = "fresh" /\ Returned("kill") /\ self = Subject)
      => result.tag = "AmmanCannotBeKilledIfNotRunning"

\* C5 (amended): kill against such an instance fails with
\* AmmanCannotBeKilledIfNotRunning exactly when its external pid is absent;
\* when new resolved a pid, kill(false) returns Ok without killing and
\* kill(true) takes the external path. It never takes the owned path.
C5_KillFreshByPid ==
    /\ (test = "fresh" /\ self = Subject)
         => pc \notin {"kill_request", "os_kill", "os_wait", "aborted"}
    /\ (test = "fresh" /\ Returned("kill") /\ self = Subject)
         => /\ process[self] = None
            /\ (result.tag = "AmmanCannotBeKilledIfNotRunning"
                  <=> (events = <<>> /\ pid[self] = None))
            /\ (result.tag = "Ok"
                  <=> (events # <<>> /\
                        \/ ~kill_external /\ pid[self] # None /\ events = <<Ev("refuse", "")>>
                        \/ kill_external /\ pid[self] = None /\ Last(events) = Ev("clear_pid", "")))
            /\ (result.tag = "FailedToKillAmman"
                  => kill_external /\ pid[self] # None)

C5_Witness ==
    /\ test = "fresh"
    /\ Returned("kill")
    /\ self = Subject
    /\ result.tag = "Ok"
    /\ ~kill_external

\* _start has just returned Ok to start, restart or ensure_started.
StartReturnedOk ==
    /\ pc = "returned"
    /\ op \in {"start", "restart", "ensure_started"}
    /\ result.tag = "Ok"
    /\ events # <<>>
    /\ Last(events) = Ev("set_handle", "")

\* C6 (as claimed): at the moment start returns Ok both well-known ports are
\* accepting connections.
C6_BothPortsOpenAtReturn ==
    StartReturnedOk => portOpen[VALIDATOR_PORT] /\ portOpen[VALIDATOR_RPC_PORT]

\* C6 (amended): whenever start returns Ok it has, after a pid was reported,
\* seen VALIDATOR_PORT accept a connection and then VALIDATOR_RPC_PORT accept
\* one, and only then recorded the handle; the two need not be open at once.
C6_EachPortSeenOpen ==
    StartReturnedOk
      => /\ Len(events) >= 4
         /\ Tail4(events) = <<Ev("pid_query", "some"),
                              Ev("scan_open", VALIDATOR_PORT),
                              Ev("scan_open", VALIDATOR_RPC_PORT),
                              Ev("set_handle", "")>>
         /\ process[self] # None

C6_Witness ==
    /\ StartReturnedOk
    /\ ~portOpen[VALIDATOR_PORT]

\* kill(true) has just returned Ok from the external path.
ExternalKillReturnedOk ==
    /\ Returned("kill")
    /\ result.tag = "Ok"
    /\ kill_external
    /\ Last(events) = Ev("clear_pid", "")

\* C7 (as claimed): when kill(true) returns Ok from the external path, both
\* well-known ports are closed.
C7_BothPortsClosedAtReturn ==
    ExternalKillReturnedOk => ~portOpen[VALIDATOR_PORT] /\ ~portOpen[VALIDATOR_RPC_PORT]

\* C7 (amended): when kill(true) returns Ok from the external path it has run
\* the stop command, waited for it, seen VALIDATOR_PORT refuse a connection
\* and then VALIDATOR_RPC_PORT refuse one, and only then cleared the external
\* pid; the two need not be closed at once.
C7_EachPortSeenClosed ==
    /\ (op = "kill" /\ pc \in {"stop_spawn", "stop_wait", "free_port1", "free_port2"})
         => pid[self] # None
    /\ ExternalKillReturnedOk
         => /\ events = <<Ev("stop_spawn", ""), Ev("stop_wait", ""),
                          Ev("scan_closed", VALIDATOR_PORT),
                          Ev("scan_closed", VALIDATOR_RPC_PORT),
                          Ev("clear_pid", "")>>
            /\ pid[self] = None
            /\ process[self] = None

C7_Witness ==
    /\ ExternalKillReturnedOk
    /\ portOpen[VALIDATOR_PORT]

\* C8: kill on an instance that holds a handle sends the kill request, then
\* terminates the owned process, then waits on it, then clears the handle; a
\* failed kill request aborts the caller with nothing terminated and the
\* handle still held; a successful kill returns with the handle absent and
\* without having probed a port.
C8_OwnedKillOrder ==
    /\ (op \in {"kill", "restart"} /\ pc = "kill_request")
         => events = <<>> /\ process[self] # None
    /\ (op \in {"kill", "restart"} /\ pc = "os_kill")
         => events = <<Ev("kill_request", "")>> /\ process[self] # None
    /\ (op \in {"kill", "restart"} /\ pc = "os_wait")
         => /\ events = <<Ev("kill_request", ""), Ev("os_kill", "")>>
            /\ process[self] # None
            /\ process[self] \notin alive
    /\ (op \in {"kill", "restart"} /\ pc = "aborted")
         => events = <<Ev("kill_request_failed", "")>> /\ process[self] # None
    /\ (Returned("kill") /\ result.tag = "Ok" /\ Ev("kill_request", "") \in Range(events))
         => /\ events = <<Ev("kill_request", ""), Ev("os_kill", ""),
                          Ev("os_wait", ""), Ev("clear_handle", "")>>
            /\ process[self] = None

C8_Witness ==
    /\ Returned("kill")
    /\ result.tag = "Ok"
    /\ Last(events) = Ev("clear_handle", "")
    /\ portOpen[VALIDATOR_PORT]
    /\ portOpen[VALIDATOR_RPC_PORT]

\* No process is owned by two instances, nor by an instance and a start in progress.
OwnedOnce ==
    /\ \A i, j \in Inst : (i # j /\ process[i] # None) => process[i] # process[j]
    /\ \A i \in Inst : (child # None) => process[i] # child

\* C9: a clone has no handle and the external pid, client and paths of the
\* instance it was cloned from; cloning changes no other instance and nothing
\* in the environment; and no process is ever owned by two instances.
C9_CloneCopiesAllButHandle ==
    /\ []OwnedOnce
    /\ [][(pc = "idle" /\ pc' = "returned" /\ op' = "clone")
            => /\ process'[self'] = None
               /\ pid'[self'] = pid[origin']
               /\ client'[self'] = client[origin']
               /\ fixtures'[self'] = fixtures[origin']
               /\ assets_dir'[self'] = assets_dir[origin']
               /\ exists[origin'] /\ ~exists[self'] /\ exists'[self']
               /\ \A k \in Inst \ {self'} :
                    /\ exists'[k] = exists[k]
                    /\ process'[k] = process[k]
                    /\ pid'[k] = pid[k]
                    /\ client'[k] = client[k]
                    /\ fixtures'[k] = fixtures[k]
                    /\ assets_dir'[k] = assets_dir[k]
               /\ UNCHANGED env]_vars

C9_Witness ==
    /\ Returned("clone")
    /\ process[origin] # None
    /\ pid[origin] # None

\* C10 (as claimed): the clone of an instance that holds a handle reports
\* started() true.
C10_CloneOfStartedIsStarted ==
    (Returned("clone") /\ process[origin] # None) => started(self)

\* C10 (amended): the clone of an instance that holds a handle has no handle
\* and reports started() true exactly when the original had an external pid
\* (start itself records none); a kill on an instance without a handle never
\* takes the owned path: it fails with AmmanCannotBeKilledIfNotRunning or takes
\* the external path.
C10_CloneStartedByPidOnly ==
    /\ (Returned("clone") /\ process[origin] # None)
         => /\ process[self] = None
            /\ (started(self) <=> pid[origin] # None)
    /\ (op = "kill" /\ pc \in {"kill_request", "os_kill", "os_wait"})
         => process[self] # None
    /\ (Returned("kill") /\ process[self] = None /\ events = <<>>)
         => result.tag = "AmmanCannotBeKilledIfNotRunning" /\ pid[self] = None

C10_Witness ==
    /\ Returned("clone")
    /\ process[origin] # None
    /\ ~started(self)

\* The positions of _start from the spawn on.
StartWaits == {"wait_pid", "wait_port1", "wait_port2"}

\* C11: ensure_started on an instance that holds a handle returns Ok at once,
\* without a pid query and without changing anything; without a handle it
\* queries the channel, and when a pid is reported it records that pid as the
\* external pid and returns Ok without spawning; it goes on to start, and so
\* to a spawn, only when there is no handle and the query reported none.
C11_EnsureStartedNeverDuplicates ==
    /\ []((op = "ensure_started" /\ pc \in {"spawn"} \cup StartWaits)
            => /\ process[self] = None
               /\ events[1] = Ev("pid_query", "none")
               /\ events[2] = Ev("pid_query", "none"))
    /\ [][(pc = "idle" /\ op' = "ensure_started")
            => IF process[self'] # None
               THEN /\ pc' = "returned"
                    /\ result'.tag = "Ok"
                    /\ events' = <<>>
                    /\ UNCHANGED <<fields, env>>
               ELSE \/ /\ events' = <<Ev("pid_query", "some")>>
                       /\ chanPid # None
                       /\ pid' = [pid EXCEPT ![self'] = chanPid]
                       /\ pc' = "returned"
                       /\ result'.tag = "Ok"
                       /\ UNCHANGED <<exists, process, client, fixtures, assets_dir, env>>
                    \/ /\ events' = <<Ev("pid_query", "none")>>
                       /\ pc' = "start_check"
                       /\ UNCHANGED <<fields, env>>]_vars

C11_Witness ==
    /\ Returned("ensure_started")
    /\ result.tag = "Ok"
    /\ events = <<Ev("pid_query", "some")>>
    /\ pid[self] = chanPid
    /\ process[self] = None
    /\ \E j \in Inst : process[j] = chanPid

\* The validator processes spawned by a supervisor and still alive: a spawned
\* process is held by the call that spawned it, then by the handle.
SpawnedAlive == alive \cap ({process[i] : i \in Inst} \cup {child})

\* C12 (as claimed): at most one validator process spawned by the supervisors
\* is alive at any time, whatever the calls on the instances and clones and
\* even when pid requests fail and are resolved as "no pid known".
C12_NoDoubleSpawn == Cardinality(SpawnedAlive) <= 1

\* What a failed step of kill leaves as the last event.
KillFailures ==
    {Ev("os_kill_failed", ""), Ev("os_wait_failed", ""),
     Ev("stop_spawn_failed", ""), Ev("stop_wait_failed", ""),
     Ev("kill_request_failed", "")}

\* What a successful kill leaves as its last event.
KillSuccesses == {Ev("clear_handle", ""), Ev("clear_pid", "")}

\* What _start leaves in the events: its pid queries and its spawn.
StartEvents ==
    {Ev("pid_query", "none"), Ev("pid_query", "some"),
     Ev("spawn", ""), Ev("spawn", "config"), Ev("spawn_failed", "")}

C14_NotStartedAfterFailedRestart ==
    (Returned("restart") /\ result.tag # "Ok"
       /\ Range(events) \cap KillSuccesses # {})
      => ~started(self)

\* C15: kill(false) on an instance with no handle but with an external pid
\* returns Ok having only refused: no stop command, no kill request, no port
\* probe, and neither the handle, the external pid nor anything else changed.
C15_KillFalseRefuses ==
    [][(pc = "idle" /\ op' = "kill" /\ ~kill_external'
          /\ process[self'] = None /\ pid[self'] # None)
         => /\ pc' = "returned"
            /\ result'.tag = "Ok"
            /\ events' = <<Ev("refuse", "")>>
            /\ UNCHANGED <<fields, env>>]_vars

C15_Witness ==
    /\ Returned("kill")
    /\ ~kill_external
    /\ result.tag = "Ok"
    /\ events = <<Ev("refuse", "")>>
    /\ process[self] = None
    /\ pid[self] \in alive

\* C16: shutdown_amman sends a kill request exactly when its first pid query
\* finds a process, and then returns only after a pid query has reported
\* none; when the first query finds none it returns at once without a kill
\* request. It is bound to no instance and changes no instance's fields.
C16_ShutdownKillsIffFound ==
    /\ [](op = "shutdown_amman"
            => /\ self = None
               /\ (pc = "sd_request" => events = <<Ev("pid_query", "some")>>)
               /\ (pc = "sd_wait"
                     => events = <<Ev("pid_query", "some"), Ev("kill_request", "")>>)
               /\ (pc = "aborted"
                     => events = <<Ev("pid_query", "some"), Ev("kill_request_failed", "")>>)
               /\ (pc = "returned"
                     => /\ result.tag = "Ok"
                        /\ \/ events = <<Ev("pid_query", "none")>>
                           \/ events = <<Ev("pid_query", "some"), Ev("kill_request", ""),
                                         Ev("pid_query", "none")>>))
    /\ [][(op' = "shutdown_amman") => UNCHANGED fields]_vars
    /\ [][(pc = "idle" /\ op' = "shutdown_amman" /\ pc' = "returned")
            => UNCHANGED env]_vars

C16_Witness ==
    /\ Returned("shutdown_amman")
    /\ Len(events) = 3
    /\ \E i \in Inst : process[i] # None

\* The validator is discoverable and both well-known ports accept connections.
Ready ==
    /\ chanPid # None
    /\ portOpen[VALIDATOR_PORT]
    /\ portOpen[VALIDATOR_RPC_PORT]

\* C17: after the spawn, _start waits for a reported pid, then for
\* VALIDATOR_PORT, then for VALIDATOR_RPC_PORT, and records the handle only
\* after that; a wait is left only towards the next wait or towards the Ok
\* return, never with an error, and the handle is absent as long as the call
\* waits; and if from some time on a pid is reported and both ports stay
\* open, the call eventually returns Ok.
C17_StartWaitsUntilReady ==
    /\ [](pc \in StartWaits
            => /\ process[self] = None
               /\ child # None
               /\ result.tag = "pending"
               /\ (pc = "wait_pid" => Last(events)[1] = "spawn")
               /\ (pc = "wait_port1" => Last(events) = Ev("pid_query", "some"))
               /\ (pc = "wait_port2" => Last(events) = Ev("scan_open", VALIDATOR_PORT)))
    /\ [][(pc \in StartWaits /\ pc' # pc)
            => \/ pc = "wait_pid" /\ pc' = "wait_port1" /\ chanPid # None
               \/ pc = "wait_port1" /\ pc' = "wait_port2" /\ portOpen[VALIDATOR_PORT]
               \/ /\ pc = "wait_port2"
                  /\ portOpen[VALIDATOR_RPC_PORT]
                  /\ pc' = "returned"
                  /\ result'.tag = "Ok"
                  /\ process'[self] = child]_vars
    /\ ((pc \in StartWaits /\ []Ready) ~> StartReturnedOk)

C17_Witness ==
    /\ pc = "wait_port2"
    /\ chanPid = None
    /\ ~portOpen[VALIDATOR_PORT]
    /\ process[self] = None

\* C18 (as claimed): an operation returns FailedToKillAmman only when the
\* OS-level terminate or wait on an owned process failed; start never returns
\* it, its only errors being AmmanWasAlreadyStarted and AmmanAlreadyRunning.
C18_KillFailedOnlyFromOwnedKill ==
    /\ (pc = "returned" /\ result.tag = "FailedToKillAmman")
         => Last(events) \in {Ev("os_kill_failed", ""), Ev("os_wait_failed", "")}
    /\ (Returned("start") /\ result.tag # "Ok")
         => result.tag \in {"AmmanWasAlreadyStarted", "AmmanAlreadyRunning"}

\* C19: during a call of start or kill the handle and the external pid of
\* every instance change only in the step that returns Ok, so whenever the
\* call returns an error they are what they were before the call; a failed
\* terminate or wait on the owned path leaves the handle present, and a
\* failed stop command on the external path leaves the external pid present.
C19_ErrorsChangeNoField ==
    /\ [][(op' \in {"start", "kill"} /\ pc' # "idle"
             /\ (process' # process \/ pid' # pid))
            => pc' = "returned" /\ result'.tag = "Ok"]_vars
    /\ []((pc = "returned" /\ op \in {"start", "kill"} /\ result.tag # "Ok")
            => /\ result.tag \in {"AmmanWasAlreadyStarted", "AmmanAlreadyRunning",
                                  "AmmanCannotBeKilledIfNotRunning", "FailedToKillAmman"}
               /\ (result.tag = "AmmanWasAlreadyStarted" => process[self] # None)
               /\ (result.tag = "AmmanAlreadyRunning" => process[self] = None)
               /\ (result.tag = "AmmanCannotBeKilledIfNotRunning" => ~started(self))
               /\ (result.tag = "FailedToKillAmman"
                     => /\ Last(events) \in KillFailures \cup {Ev("spawn_failed", "")}
                        /\ (Last(events) = Ev("spawn_failed", "") => process[self] = None)
                        /\ (Last(events) \in {Ev("os_kill_failed", ""), Ev("os_wait_failed", "")}
                              => process[self] # None)
                        /\ (Last(events) \in {Ev("stop_spawn_failed", ""), Ev("stop_wait_failed", "")}
                              => process[self] = None /\ pid[self] # None)))

C19_Witness ==
    /\ Returned("kill")
    /\ result.tag = "FailedToKillAmman"
    /\ Last(events) = Ev("os_wait_failed", "")
    /\ process[self] # None
    /\ process[self] \notin alive

\* C20: the external pid of an instance is written only when the instance is
\* constructed (new, or clone for the clone), when ensure_started adopts the
\* pid the channel reports, and when the external path of kill(true) clears
\* it; start and the owned path of kill leave it as it is, so a pid recorded
\* earlier is still recorded after a later start and owned kill.
C20_ExternalPidWriters ==
    [][/\ \A i \in Inst :
            pid'[i] # pid[i]
              => /\ self' = i
                 /\ IF ~exists[i]
                    THEN op' \in {"new", "clone"} /\ exists'[i]
                    ELSE \/ /\ pc = "idle"
                            /\ op' = "ensure_started"
                            /\ process[i] = None
                            /\ pid'[i] = chanPid
                         \/ /\ pc = "free_port2"
                            /\ kill_external
                            /\ process[i] = None
                            /\ pid'[i] = None
       /\ (op' = "start" \/ pc \in {"kill_request", "os_kill", "os_wait"})
            => pid' = pid]_vars

C20_Witness ==
    /\ Returned("kill")
    /\ result.tag = "Ok"
    /\ Last(events) = Ev("clear_handle", "")
    /\ pid[self] # None
    /\ process[self] = None

====
